---------------------------- MODULE Spec2Model ----------------------------
(***************************************************************************)
(* Model of the message batching engine of pokitoki (src/bot/batching.py): *)
(* IncomingMessage / MarkItDownMessage, BatchMessage and BatchProcessor,   *)
(* run by one asyncio event loop.  Every action is one uninterrupted run   *)
(* of a coroutine or callback between two suspension points.               *)
(***************************************************************************)
EXTENDS Integers, Sequences, FiniteSets, TLC

(***************************************************************************)
(* Bounds of the model.                                                    *)
(***************************************************************************)
\* Number of add_message calls in one run.
MaxAdds == 2

\* Number of messages MessageCommand._process handles in one run.
MaxAsks == 1

\* Number of messages MessageCommand.__call__ receives in one run.
MaxMessages == 2

\* Number of calls of the wrapper of with_message_limit in one run.
MaxWraps == 3

\* Number of /parsemany commands in one run.
MaxParses == 3

\* Number of calls of bot.reply_to in one run.
MaxReplies == 2

\* Conversation keys (update.effective_user.id).
Keys == {1, 2}

(***************************************************************************)
(* Strings.  Python strings are TLA+ strings; "" is falsy, like None.      *)
(***************************************************************************)
RECURSIVE Join(_, _)
\* sep.join(parts)
Join(sep, parts) ==
    IF Len(parts) = 0 THEN ""
    ELSE IF Len(parts) = 1 THEN parts[1]
    ELSE parts[1] \o sep \o Join(sep, Tail(parts))

\* sub in s
Contains(s, sub) ==
    \/ sub = ""
    \/ \E i \in 1..(Len(s) - Len(sub) + 1) :
           SubSeq(s, i, i + Len(sub) - 1) = sub

\* s.startswith(pre)
StartsWith(s, pre) ==
    Len(pre) <= Len(s) /\ SubSeq(s, 1, Len(pre)) = pre

RECURSIVE LStrip(_, _)
\* s.lstrip(chars), chars a set of characters
LStrip(s, chars) ==
    IF Len(s) > 0 /\ SubSeq(s, 1, 1) \in chars
    THEN LStrip(SubSeq(s, 2, Len(s)), chars)
    ELSE s

RECURSIVE RStrip(_, _)
\* s.rstrip(chars)
RStrip(s, chars) ==
    IF Len(s) > 0 /\ SubSeq(s, Len(s), Len(s)) \in chars
    THEN RStrip(SubSeq(s, 1, Len(s) - 1), chars)
    ELSE s

\* s.strip(chars)
Strip(s, chars) == RStrip(LStrip(s, chars), chars)

RECURSIVE AfterSpace(_)
\* s.partition(" ")[2]: what follows the first space of s, "" without one
AfterSpace(s) ==
    IF Len(s) = 0 THEN ""
    ELSE IF SubSeq(s, 1, 1) = " " THEN SubSeq(s, 2, Len(s))
    ELSE AfterSpace(SubSeq(s, 2, Len(s)))

\* The sequence s without its empty strings: [x for x in s if x]
NonEmpty(s) == SelectSeq(s, LAMBDA x : x # "")

\* The set of elements of a sequence.
Range(s) == {s[i] : i \in 1..Len(s)}

(***************************************************************************)
(* Dictionaries: functions whose domain is the set of keys present.        *)
(***************************************************************************)
EmptyDict == <<>>

\* d[k] = v
DictSet(d, k, v) == [x \in DOMAIN d \cup {k} |-> IF x = k THEN v ELSE d[x]]

\* d.pop(k, None)
DictPop(d, k) == [x \in DOMAIN d \ {k} |-> d[x]]

(***************************************************************************)
(* The Telegram messages the model feeds to add_message.  text, caption:   *)
(* what the user wrote.  doc: the message carries a document or a photo,   *)
(* and docText is what FileProcessor.process_files returns for it when it  *)
(* does not raise.  voice / voiceText: the same for a voice attachment and *)
(* VoiceProcessor.transcribe.  reply: the message is a reply to a message  *)
(* whose author is the bot.                                                *)
(***************************************************************************)
Msg(text, caption, doc, docText, voice, voiceText, reply) ==
    [text |-> text, caption |-> caption, doc |-> doc, docText |-> docText,
     voice |-> voice, voiceText |-> voiceText, reply |-> reply]

\* Two text messages.
TextA == Msg("A", "", FALSE, "", FALSE, "", FALSE)
TextB == Msg("B", "", FALSE, "", FALSE, "", FALSE)

\* A document without caption, from which "world" is extracted.
DocWorld == Msg("", "", TRUE, "world", FALSE, "", FALSE)

\* A photo with the caption "hello", from which nothing is extracted.
PhotoHello == Msg("", "hello", TRUE, "", FALSE, "", FALSE)

Messages == {TextA, TextB, DocWorld, PhotoHello}

\* A voice message, transcribed as "hi".
VoiceHi == Msg("", "", FALSE, "", TRUE, "hi", FALSE)

\* The add_message calls of the model: user 1 sends any of the messages,
\* user 2 a text or a document.
Inputs == ({1} \X Messages) \cup ({2} \X {TextA, DocWorld})

\* The message of test_no_mention_batch: a text in a group chat that
\* neither mentions the bot nor replies to it.  Neither the BatchProcessor
\* nor bot.reply_to looks at the chat type or at the entities of a message
\* to decide whether to answer it.
GroupText == Msg("What is your name?", "", FALSE, "", FALSE, "", FALSE)

\* The add_message calls of the model of the group chat: one user, who
\* sends that text or a document.
GroupInputs == {1} \X {GroupText, DocWorld}

\* A second document without caption, from which "moon" is extracted.
DocMoon == Msg("", "", TRUE, "moon", FALSE, "", FALSE)

\* The add_message calls of the model of the order of the contents: one
\* user, who sends a text or one of two documents.
OrderInputs == {1} \X {TextA, DocWorld, DocMoon}

\* A message with a document, from which "world" is extracted, and with a
\* voice attachment, transcribed as "hi": process() handles the two in
\* turn.
DocVoice == Msg("", "", TRUE, "world", TRUE, "hi", FALSE)

\* The add_message calls of the model of the two steps of process(): one
\* user, who sends a document or that message.
VoiceFileInputs == {1} \X {DocWorld, DocVoice}

\* A text message that is a reply to a message of the bot.
TextReply == Msg("B", "", FALSE, "", FALSE, "", TRUE)

\* The add_message calls of the model of the follow-up marker: one user,
\* who sends a text, a reply to the bot or a document.
ReplyInputs == {1} \X {TextA, TextReply, DocWorld}

\* The add_message calls of the model of the stash: one user, who sends a
\* document without caption or a text.
StashInputs == {1} \X {DocWorld, TextA}

\* What questions.extract_private returns for the text messages that the
\* model hands to MessageCommand._process.
Questions == {"Q"}

\* The add_message calls of the model of the merge: one user, who sends a
\* text, a document, a captioned photo or a voice message.
MergeInputs == {1} \X {TextA, DocWorld, PhotoHello, VoiceHi}

(***************************************************************************)
(* State.                                                                  *)
(***************************************************************************)
VARIABLES
    incoming,   \* the IncomingMessage objects, in the order add_message made
                \* them: [key, message, content, has_text], and in error
                \* the step of process() whose exception ended their task
    tasks,      \* tasks[i]: the asyncio task of incoming[i].process():
                \* "pending", "done" or "failed" (ended by an exception)
    batchObjs,  \* the BatchMessage objects, by the index of the call that
                \* created them
    batches,    \* BatchProcessor.batches: key -> BatchMessage object
    timers,     \* BatchProcessor.timers: key -> TimerHandle
    tokens,     \* BatchProcessor.tokens: key -> int
    handles,    \* the TimerHandle objects, handles[i] made by the i-th call:
                \* [key, token, state], state "armed", "cancelled", "fired"
    fin,        \* the _finalize_batch tasks, by the handle that created them
    dispatched, \* the calls of reply_func so far
    notified,   \* the calls of message.reply_text("This is a file...")
    last_file_content, \* user_data["last_file_content"], per user
    calls,      \* history: for each add_message call, its key and the phase
                \* the key was in when the call arrived
    asked,      \* the calls of reply_func made by MessageCommand._process
    chat,       \* the texts that bot.reply_to and its wrapper sent to the
                \* chat
    replies,    \* the calls of bot.reply_to that bind, in the order they
                \* were made: their arguments, their position (pc), and
                \* the locals of _ask_question
    messages,   \* UserData(context.user_data).messages, per user: the
                \* stored (question, answer) pairs
    received,   \* the messages MessageCommand.__call__ got, in the order it
                \* got them: [key, message]
    cmd_buffers,  \* MessageCommand._buffers: key -> list of messages
    cmd_tasks,    \* MessageCommand._tasks: key -> _flush task
    file_prompts, \* MessageCommand._file_prompts: key -> prompt task
    flushes,    \* the _flush tasks, flushes[i] made by the i-th __call__
    prompts,    \* the _delayed_file_prompt tasks, in the order _process
                \* made them
    sleeps,     \* the tasks of MessageCommand that are in
                \* asyncio.sleep(debounce_sec), in the order they went to
                \* sleep, which is the order in which the loop wakes them
    wraps,      \* the calls of the wrapper of with_message_limit, in the
                \* order they were made: [key, pc]
    message_counter, \* UserData(context.user_data).message_counter.value,
                \* per user, within one window of the counter
    active_sessions, \* parsemany.active_sessions, a dict in the order in
                \* which its keys were inserted: [chat, session], a session
                \* being the index of the call that made it
    parse_calls,  \* the calls of ParseManyCommand.__call__: [chat, pc]
    cleanup,    \* the call of ParseManyCommand.cleanup_all_sessions: its
                \* position and the sessions there were when it began
    cleaned,    \* the sessions whose cleanup_callback was called, in the
                \* order of the calls
    finished    \* history, kept where the order matters: the process()
                \* tasks that have ended, in the order in which they ended

vars == <<incoming, tasks, batchObjs, batches, timers, tokens, handles, fin,
          dispatched, notified, last_file_content, calls, asked, chat,
          replies, messages, received, cmd_buffers, cmd_tasks, file_prompts,
          flushes, prompts, sleeps, wraps, message_counter,
          active_sessions, parse_calls, cleanup, cleaned, finished>>

\* The state of the application around the BatchProcessor, which no method
\* of the BatchProcessor touches.
\* The state of MessageCommand but for user_data and its calls of
\* reply_func.
commandVars == <<received, cmd_buffers, cmd_tasks, file_prompts, flushes,
                 prompts, sleeps>>

\* The state of the wrapper of with_message_limit.
limitVars == <<wraps, message_counter>>

\* The state of ParseManyCommand.
parseVars == <<active_sessions, parse_calls, cleanup, cleaned>>

\* The state of the handlers of the application that neither the
\* BatchProcessor nor bot.reply_to touches.
handlerVars == <<commandVars, limitVars, parseVars>>

appVars == <<asked, chat, replies, messages, handlerVars>>

\* What add_message, the timers and the _finalize_batch tasks leave alone:
\* the application's state and the history of the process() tasks.
otherVars == <<appVars, finished>>


(***************************************************************************)
(* IncomingMessage and MarkItDownMessage.                                  *)
(***************************************************************************)
\* A slip: an attachment counted as text of the user.
HasTextOrFile(m) == m.text # "" \/ m.caption # "" \/ m.voice \/ m.doc

\* IncomingMessage.__init__: has_text = bool(text or caption or voice)
HasText(m) == m.text # "" \/ m.caption # "" \/ m.voice

\* The awaits of MarkItDownMessage.process that can raise, for message m.
FileChoices(m)  == IF m.doc THEN BOOLEAN ELSE {FALSE}
VoiceChoices(m) == IF m.voice THEN BOOLEAN ELSE {FALSE}

\* process() awaits something only for a document, a photo or a voice.  The
\* task of a process() that awaits nothing ends in its first step, which
\* BatchMessage.add schedules (create_task) ahead of every callback that
\* could look at the task, the loop running its callbacks first in, first
\* out: it is done for all that follows the add_message call.
Suspends(m) == m.doc \/ m.voice

\* MarkItDownMessage.process, from its start to its end: the state its task
\* ends in and the content the object ends with.  content is assigned by
\* the last statement only, so an exception leaves it at "".
Process(m, fileRaises, voiceRaises) ==
    LET fileParts  == IF m.doc /\ m.docText # "" THEN <<m.docText>> ELSE <<>>
        voiceParts == IF m.voice /\ m.voiceText # "" THEN <<m.voiceText>>
                      ELSE <<>>
        raised     == (m.doc /\ fileRaises) \/ (m.voice /\ voiceRaises)
    IN  IF raised
        THEN [state |-> "failed", content |-> "",
              error |-> IF m.doc /\ fileRaises THEN "file" ELSE "voice"]
        ELSE [state |-> "done", error |-> "",
              content |-> Join("\n\n", fileParts \o voiceParts)]

(***************************************************************************)
(* BatchMessage.  tasks[i] is the task of messages[i]: the two lists grow  *)
(* together, so messages (a list of object indices) stands for both.       *)
(* last_update is the index of the call whose update and context the batch *)
(* keeps (0: None).                                                        *)
(***************************************************************************)
\* BatchMessage.__init__
NewBatch ==
    [messages |-> <<>>, last_update |-> 0, has_voice |-> FALSE,
     caption |-> "", is_follow_up |-> FALSE]

\* A slip: the texts of a batch separated like its blocks, by a blank line.
AddCaptionBlankLine(caption, m) ==
    LET t == IF m.caption # "" THEN m.caption ELSE m.text
    IN  IF t = "" THEN caption
        ELSE IF caption # "" THEN caption \o "\n\n" \o t ELSE t

\* BatchMessage.add, the caption part
AddCaption(caption, m) ==
    IF m.caption # ""
    THEN IF caption # "" THEN caption \o "\n" \o m.caption ELSE m.caption
    ELSE IF m.text # ""
    THEN IF caption # "" THEN caption \o "\n" \o m.text ELSE m.text
    ELSE caption

\* A slip: the follow-up flag set from the last item alone.
BatchAddLastReply(b, id, m) ==
    [messages     |-> Append(b.messages, id),
     last_update  |-> id,
     is_follow_up |-> m.reply,
     has_voice    |-> b.has_voice \/ m.voice,
     caption      |-> AddCaption(b.caption, m)]

\* A slip: the voice flag set from the last item alone.
BatchAddLastVoice(b, id, m) ==
    [messages     |-> Append(b.messages, id),
     last_update  |-> id,
     is_follow_up |-> b.is_follow_up \/ m.reply,
     has_voice    |-> m.voice,
     caption      |-> AddCaption(b.caption, m)]

\* A slip: the update and the context of the first item kept.
BatchAddFirstUpdate(b, id, m) ==
    [messages     |-> Append(b.messages, id),
     last_update  |-> IF b.last_update = 0 THEN id ELSE b.last_update,
     is_follow_up |-> b.is_follow_up \/ m.reply,
     has_voice    |-> b.has_voice \/ m.voice,
     caption      |-> AddCaption(b.caption, m)]

\* BatchMessage.add(msg, update, context), msg the object of index id
BatchAdd(b, id, m) ==
    [messages     |-> Append(b.messages, id),
     last_update  |-> id,
     is_follow_up |-> b.is_follow_up \/ m.reply,
     has_voice    |-> b.has_voice \/ m.voice,
     caption      |-> AddCaption(b.caption, m)]

\* BatchMessage.is_ready
IsReady(b) == \A i \in Range(b.messages) : tasks[i] # "pending"

\* A slip: the prompt built without waiting for the tasks.
PendingNone(b) == {}

\* wait_until_ready: pending = [t for t in self.tasks if not t.done()]
Pending(b) == {i \in Range(b.messages) : tasks[i] = "pending"}

\* A slip: a gather that raises the first exception of its tasks.
ReturnExceptionsOff == FALSE

\* asyncio.gather(*pending, return_exceptions=True)
ReturnExceptions == TRUE

\* A slip: the extracted contents ahead of the user's text.
FinalPartsContentFirst(caption, full_content) ==
    (IF full_content # "" THEN <<full_content>> ELSE <<>>)
        \o (IF caption # "" THEN <<caption>> ELSE <<>>)

\* get_full_prompt: final_parts
FinalParts(caption, full_content) ==
    (IF caption # "" THEN <<caption>> ELSE <<>>)
        \o (IF full_content # "" THEN <<full_content>> ELSE <<>>)

\* A slip: the contents in the order in which the tasks ended.
ContentPartsAsFinished(b) ==
    NonEmpty([n \in 1..Len(finished) |->
                 IF finished[n] \in Range(b.messages)
                 THEN incoming[finished[n]].content ELSE ""])

\* get_full_prompt: the contents of the messages, in the order of the list
ContentParts(b) ==
    NonEmpty([i \in 1..Len(b.messages) |-> incoming[b.messages[i]].content])

\* get_full_prompt, after wait_until_ready
GetFullPrompt(b) ==
    LET full_content == Join("\n\n", ContentParts(b))
        full_prompt  == Join("\n\n", FinalParts(b.caption, full_content))
    IN  IF b.is_follow_up THEN "+ " \o full_prompt ELSE full_prompt

(***************************************************************************)
(* BatchProcessor.                                                         *)
(***************************************************************************)
\* A slip: the timer that is replaced left to run.
CancelNothing(hs, h) == hs

\* TimerHandle.cancel(): a handle that has run, or was cancelled, stays so.
Cancel(hs, h) ==
    IF hs[h].state = "armed" THEN [hs EXCEPT ![h].state = "cancelled"] ELSE hs

\* A _finalize_batch task that passed the token check and has not torn the
\* key's state down yet.
Finalizing(k) ==
    \E h \in DOMAIN fin :
        fin[h].key = k /\ fin[h].pc \in {"waiting", "dispatch", "notify"}

\* The phase key k is in: what an add_message call for k meets.
Phase(k) ==
    IF Finalizing(k) THEN "finalizing"
    ELSE IF k \in DOMAIN timers /\ handles[timers[k]].state = "armed"
    THEN "collecting"
    ELSE IF \E h \in DOMAIN fin : fin[h].key = k /\ fin[h].pc = "created"
    THEN "fired"
    ELSE IF k \notin DOMAIN batches THEN "absent"
    ELSE "stuck"

\* A slip: a batch of its own for every call.
BatchForFresh(k, id) == id

\* add_message: batch = self.batches.get(user_id); if not batch: create
BatchFor(k, id) == IF k \in DOMAIN batches THEN batches[k] ELSE id

\* add_message: token = self.tokens.get(user_id, 0) + 1
NextToken(k) == (IF k \in DOMAIN tokens THEN tokens[k] ELSE 0) + 1

\* A slip: add_message awaits the tasks of the key's batch and the
\* finalization of the key.
AddMessageWaitsForBatch(k) ==
    \/ k \in DOMAIN batches /\ Pending(batchObjs[batches[k]]) # {}
    \/ Finalizing(k)

\* What holds add_message up for key k: nothing.  The coroutine has no
\* await: it starts the task of process() with create_task and arms the
\* timer with call_later.
AddMessageWaits(k) == FALSE

\* add_message(update, message, context) with update.effective_user.id = k.
\* The coroutine never suspends.
AddMessage(k, m) ==
    /\ Len(incoming) < MaxAdds
    /\ ~AddMessageWaits(k)
    /\ LET id  == Len(incoming) + 1
           bid == BatchFor(k, id)
           old == IF bid \in DOMAIN batchObjs THEN batchObjs[bid] ELSE NewBatch
       IN  /\ batches' = DictSet(batches, k, bid)
           /\ batchObjs' = DictSet(batchObjs, bid, BatchAdd(old, id, m))
           /\ incoming' = Append(incoming,
                  [key |-> k, message |-> m, content |-> "",
                   has_text |-> HasText(m), error |-> ""])
           /\ tasks' = Append(tasks,
                  IF Suspends(m) THEN "pending" ELSE "done")
           /\ handles' = Append(
                  IF k \in DOMAIN timers THEN Cancel(handles, timers[k])
                  ELSE handles,
                  [key |-> k, token |-> NextToken(k), state |-> "armed"])
           /\ tokens' = DictSet(tokens, k, NextToken(k))
           /\ timers' = DictSet(timers, k, id)
           /\ calls' = Append(calls, [key |-> k, phase |-> Phase(k)])
    /\ UNCHANGED <<fin, dispatched, notified, last_file_content, otherVars>>

\* The task of incoming[i].process() runs to its end.
ProcessEnd(i, fileRaises, voiceRaises) ==
    /\ tasks[i] = "pending"
    /\ LET r == Process(incoming[i].message, fileRaises, voiceRaises)
       IN  /\ tasks' = [tasks EXCEPT ![i] = r.state]
           /\ incoming' = [incoming EXCEPT ![i].content = r.content,
                                           ![i].error = r.error]
    /\ UNCHANGED <<batchObjs, batches, timers, tokens, handles, fin,
                   dispatched, notified, last_file_content, calls, appVars>>

\* The same, no history kept.
ProcessDone(i, fileRaises, voiceRaises) ==
    ProcessEnd(i, fileRaises, voiceRaises) /\ UNCHANGED finished

\* The same, with the order of the ends kept.
ProcessDoneInOrder(i, fileRaises, voiceRaises) ==
    ProcessEnd(i, fileRaises, voiceRaises) /\ finished' = Append(finished, i)

\* buffer_time after it was armed, handle h runs its callback:
\* asyncio.create_task(self._finalize_batch(user_id, tok))
TimerFire(h) ==
    /\ handles[h].state = "armed"
    /\ handles' = [handles EXCEPT ![h].state = "fired"]
    /\ fin' = DictSet(fin, h,
           [key |-> handles[h].key, token |-> handles[h].token,
            pc |-> "created", batch |-> 0, waiting |-> {},
            err |-> ""])
    /\ UNCHANGED <<incoming, tasks, batchObjs, batches, timers, tokens,
                   dispatched, notified, last_file_content, calls, otherVars>>


\* A slip: the token check left out.
TokenNotChecked(k, token) == TRUE

\* _finalize_batch: if self.tokens.get(user_id) != token: return
TokenIsCurrent(k, token) == k \in DOMAIN tokens /\ tokens[k] = token

\* _finalize_batch: has_user_text = any(m.has_text for m in batch.messages)
HasUserText(b) == \E i \in Range(b.messages) : incoming[i].has_text

\* A slip: the teardown of one key clears the three maps.
TeardownAll(k) ==
    /\ handles' = IF k \in DOMAIN timers THEN Cancel(handles, timers[k])
                  ELSE handles
    /\ timers' = EmptyDict
    /\ batches' = EmptyDict
    /\ tokens' = EmptyDict

\* A slip: the teardown leaves the token of the key.
TeardownKeepsToken(k) ==
    /\ handles' = IF k \in DOMAIN timers THEN Cancel(handles, timers[k])
                  ELSE handles
    /\ timers' = DictPop(timers, k)
    /\ batches' = DictPop(batches, k)
    /\ tokens' = tokens

\* _finalize_batch, its last four statements
Teardown(k) ==
    /\ handles' = IF k \in DOMAIN timers THEN Cancel(handles, timers[k])
                  ELSE handles
    /\ timers' = DictPop(timers, k)
    /\ batches' = DictPop(batches, k)
    /\ tokens' = DictPop(tokens, k)

\* _finalize_batch from the return of get_full_prompt's wait to its next
\* await: the merge, and the call of reply_text or of reply_func.  Nothing
\* suspends in between, so the prompt is the one of the batch as it is now.
AfterReady(h, bid) ==
    LET b      == batchObjs[bid]
        k      == fin[h].key
        prompt == GetFullPrompt(b)
        call   == [key |-> k, task |-> h, question |-> prompt,
                   items |-> b.messages, target |-> b.last_update,
                   send_voice_reply |-> b.has_voice]
    IN  IF b.last_update = 0
        THEN \* update, context or message is None: nothing is sent
             /\ Teardown(k)
             /\ fin' = [fin EXCEPT ![h].pc = "done", ![h].batch = bid,
                                   ![h].waiting = {}]
             /\ UNCHANGED <<dispatched, notified, last_file_content>>
        ELSE IF ~HasUserText(b)
        THEN /\ last_file_content' =
                    IF prompt # "" THEN DictSet(last_file_content, k, prompt)
                    ELSE last_file_content
             /\ notified' = Append(notified, call)
             /\ fin' = [fin EXCEPT ![h].pc = "notify", ![h].batch = bid,
                                   ![h].waiting = {}]
             /\ UNCHANGED <<dispatched, handles, timers, batches, tokens>>
        ELSE /\ dispatched' = Append(dispatched, call)
             /\ fin' = [fin EXCEPT ![h].pc = "dispatch", ![h].batch = bid,
                                   ![h].waiting = {}]
             /\ UNCHANGED <<notified, last_file_content, handles, timers,
                            batches, tokens>>

\* The task of _finalize_batch(user_id, token) made by handle h takes its
\* first step: from the token check to its first suspension.
FinalizeStart(h) ==
    /\ h \in DOMAIN fin
    /\ fin[h].pc = "created"
    /\ LET k == fin[h].key
       IN  IF ~TokenIsCurrent(k, fin[h].token)
           THEN /\ fin' = [fin EXCEPT ![h].pc = "skipped"]
                /\ UNCHANGED <<dispatched, notified, last_file_content,
                               handles, timers, batches, tokens>>
           ELSE IF k \notin DOMAIN batches
           THEN /\ fin' = [fin EXCEPT ![h].pc = "nobatch"]
                /\ UNCHANGED <<dispatched, notified, last_file_content,
                               handles, timers, batches, tokens>>
           ELSE IF Pending(batchObjs[batches[k]]) # {}
           THEN \* wait_until_ready suspends in gather(*pending)
                /\ fin' = [fin EXCEPT ![h].pc = "waiting",
                               ![h].batch = batches[k],
                               ![h].waiting = Pending(batchObjs[batches[k]])]
                /\ UNCHANGED <<dispatched, notified, last_file_content,
                               handles, timers, batches, tokens>>
           ELSE AfterReady(h, batches[k])
    /\ UNCHANGED <<incoming, tasks, batchObjs, calls, otherVars>>

\* Every task the gather of wait_until_ready waits for has ended: the
\* finalization resumes and looks at the batch's tasks again.
FinalizeResume(h) ==
    /\ h \in DOMAIN fin
    /\ fin[h].pc = "waiting"
    /\ \A i \in fin[h].waiting : tasks[i] # "pending"
    /\ IF ~ReturnExceptions /\ \E i \in fin[h].waiting : tasks[i] = "failed"
       THEN /\ fin' = [fin EXCEPT ![h].pc = "raised", ![h].err = "extract"]
            /\ UNCHANGED <<dispatched, notified, last_file_content,
                           handles, timers, batches, tokens>>
       ELSE IF Pending(batchObjs[fin[h].batch]) # {}
       THEN /\ fin' = [fin EXCEPT
                           ![h].waiting = Pending(batchObjs[fin[h].batch])]
            /\ UNCHANGED <<dispatched, notified, last_file_content,
                           handles, timers, batches, tokens>>
       ELSE AfterReady(h, fin[h].batch)
    /\ UNCHANGED <<incoming, tasks, batchObjs, calls, otherVars>>

\* await self.reply_func(...) returns: the teardown runs.
DispatchReturn(h) ==
    /\ h \in DOMAIN fin
    /\ fin[h].pc = "dispatch"
    /\ Teardown(fin[h].key)
    /\ fin' = [fin EXCEPT ![h].pc = "done"]
    /\ UNCHANGED <<incoming, tasks, batchObjs, dispatched, notified,
                   last_file_content, calls, otherVars>>

\* await self.reply_func(...) raises: the exception ends the task.
DispatchRaise(h) ==
    /\ h \in DOMAIN fin
    /\ fin[h].pc = "dispatch"
    /\ fin' = [fin EXCEPT ![h].pc = "raised", ![h].err = "dispatch"]
    /\ UNCHANGED <<incoming, tasks, batchObjs, batches, timers, tokens,
                   handles, dispatched, notified, last_file_content, calls,
                   otherVars>>

\* await message.reply_text("This is a file...") returns: the teardown runs.
NotifyReturn(h) ==
    /\ h \in DOMAIN fin
    /\ fin[h].pc = "notify"
    /\ Teardown(fin[h].key)
    /\ fin' = [fin EXCEPT ![h].pc = "done"]
    /\ UNCHANGED <<incoming, tasks, batchObjs, dispatched, notified,
                   last_file_content, calls, otherVars>>

\* await message.reply_text("This is a file...") raises.
NotifyRaise(h) ==
    /\ h \in DOMAIN fin
    /\ fin[h].pc = "notify"
    /\ fin' = [fin EXCEPT ![h].pc = "raised", ![h].err = "notify"]
    /\ UNCHANGED <<incoming, tasks, batchObjs, batches, timers, tokens,
                   handles, dispatched, notified, last_file_content, calls,
                   otherVars>>

(***************************************************************************)
(* bot.reply_to as the reply_func of the BatchProcessor, as the tests of   *)
(* src/tests/test_batching.py construct it: BatchProcessor(bot.reply_to).  *)
(***************************************************************************)
\* A slip: a wrapper that takes the keyword send_voice_reply too.
WrapperParamsWithVoice ==
    {"update", "message", "context", "question", "send_voice_reply"}

\* The parameters of the wrapper that with_message_limit puts around
\* reply_to.
WrapperParams == {"update", "message", "context", "question"}

\* The keywords _finalize_batch calls reply_func with.
CallKeywords ==
    {"update", "message", "context", "question", "send_voice_reply"}

\* What the wrapper and reply_to send for a message without attachment
\* when they end normally: the refusal of the message limit, the answer of
\* the model, or the text of the exception that reply_to caught.
ReplyTexts == {"Please wait", "answer", "error"}

\* The call reply_func(update=..., send_voice_reply=...) of a finalization
\* with reply_func = bot.reply_to, to its end.  Python raises TypeError
\* for a keyword the wrapper does not take, before the wrapper runs.  A
\* call that binds ends with a text sent to the chat, or in the exception
\* of a send that failed.
ReplyTo(h) ==
    /\ h \in DOMAIN fin
    /\ fin[h].pc = "dispatch"
    /\ IF ~(CallKeywords \subseteq WrapperParams)
       THEN /\ fin' = [fin EXCEPT ![h].pc = "raised", ![h].err = "dispatch"]
            /\ UNCHANGED <<handles, timers, batches, tokens, chat>>
       ELSE \/ \E text \in ReplyTexts :
                  /\ chat' = Append(chat, [key |-> fin[h].key, task |-> h,
                                           text |-> text])
                  /\ Teardown(fin[h].key)
                  /\ fin' = [fin EXCEPT ![h].pc = "done"]
            \/ /\ fin' = [fin EXCEPT ![h].pc = "raised",
                                      ![h].err = "dispatch"]
               /\ UNCHANGED <<handles, timers, batches, tokens, chat>>
    /\ UNCHANGED <<incoming, tasks, batchObjs, dispatched, notified,
                   last_file_content, calls, asked, replies, messages,
                   handlerVars, finished>>

(***************************************************************************)
(* MessageCommand, the handler of the application's text messages          *)
(* (src/bot/commands/message.py).  It shares user_data, and with it the    *)
(* entry "last_file_content", with the BatchProcessor.                     *)
(***************************************************************************)
\* A slip: the stored content left out of the question.
WithStoredIgnored(question, stored) == question

\* _process with a question and no file content: the question that
\* reply_func gets when `stored` was popped from user_data.  Line 213 adds
\* the stored content to the question and line 224 adds it again, as the
\* file content that line 212 made of it.
WithStored(question, stored) ==
    IF stored # ""
    THEN (question \o "\n\n" \o stored) \o "\n\n" \o stored
    ELSE question

\* _process for a message of user k that has no attachment and from which
\* `question`, not empty, was extracted: from the look at user_data to the
\* call of reply_func, which is its last statement.  Nothing suspends in
\* between.
ProcessText(k, question) ==
    /\ Len(asked) < MaxAsks
    /\ LET stored == IF k \in DOMAIN last_file_content
                     THEN last_file_content[k] ELSE ""
       IN  /\ last_file_content' = DictPop(last_file_content, k)
           /\ asked' = Append(asked,
                  [key |-> k, question |-> WithStored(question, stored),
                   text |-> question])
    /\ UNCHANGED <<incoming, tasks, batchObjs, batches, timers, tokens,
                   handles, fin, dispatched, notified, calls, chat,
                   replies, messages, handlerVars, finished>>

(***************************************************************************)
(* MessageCommand with its debounce: __call__, _flush, _process and        *)
(* _delayed_file_prompt, for the messages of private chats, with           *)
(* config.files.enabled.  A key stands for the chat and the user of a      *)
(* private chat, and so for the user whose user_data _process uses.  All   *)
(* sleeps last debounce_sec, so the loop wakes the sleeping tasks in the   *)
(* order in which they went to sleep.                                      *)
(***************************************************************************)
\* The messages of the model of MessageCommand: one user, who sends a text
\* or one of two documents without caption.
CommandInputs == {1} \X {TextA, DocWorld, DocMoon}

\* What process_files returns for the documents and photos it is given,
\* from which it extracts `texts`: the texts in the order of the files, or
\* None ("") when it extracts nothing.
ProcessFiles(texts) == Join("\n\n", NonEmpty(texts))

\* The ways the await of process_files ends.
FileOutcomes == {"content", "none", "raise"}

\* The sequence s without its element x.
Without(s, x) == SelectSeq(s, LAMBDA y : y # x)

\* task.cancel() on prompt task p (0: there is none), which ends a task
\* that sleeps or waits for its reply_text and leaves a task that has
\* ended as it is.
CancelPrompt(ps, p) ==
    IF p # 0 /\ ps[p].pc \in {"sleeping", "sending"}
    THEN [ps EXCEPT ![p].pc = "cancelled"]
    ELSE ps

\* A slip: the buffer read and left in place.
PopBufferPeek(k) == cmd_buffers

\* self._buffers.pop(key, []): the buffers without the one of key k
PopBuffer(k) == DictPop(cmd_buffers, k)

\* _flush, lines 67-74: the documents and photos of the messages, as the
\* texts process_files extracts from them.
FlushDocs(data) ==
    LET ms   == [j \in 1..Len(data) |-> received[data[j]].message]
        docs == SelectSeq(ms, LAMBDA m : m.doc)
    IN  [j \in 1..Len(docs) |-> docs[j].docText]

RECURSIVE FlushTexts(_)
\* _flush, lines 70-78: the caption and then the text of every message
FlushTexts(data) ==
    IF Len(data) = 0 THEN <<>>
    ELSE LET m == received[data[1]].message
         IN  NonEmpty(<<m.caption, m.text>>) \o FlushTexts(Tail(data))

\* _flush, line 79, with None as ""
FlushText(data) == Strip(Join("\n", FlushTexts(data)), {" ", "\n"})

\* questions.extract_private for the message _process makes of the text
\* of the flush and of its last message: the text, behind "+ " when the
\* last message is a reply.
ExtractPrivate(text, base) == IF base.reply THEN "+ " \o text ELSE text

\* MessageCommand.__call__ for message m with key k: nothing suspends.
MessageCall(k, m) ==
    /\ Len(received) < MaxMessages
    /\ LET i   == Len(received) + 1
           old == IF k \in DOMAIN cmd_tasks THEN cmd_tasks[k] ELSE 0
           buf == IF k \in DOMAIN cmd_buffers THEN cmd_buffers[k] ELSE <<>>
       IN  /\ received' = Append(received, [key |-> k, message |-> m])
           /\ cmd_buffers' = DictSet(cmd_buffers, k, Append(buf, i))
           /\ flushes' = Append(
                  IF old # 0 /\ flushes[old].pc = "sleeping"
                  THEN [flushes EXCEPT ![old].pc = "cancelled"]
                  ELSE flushes,
                  [key |-> k, pc |-> "sleeping", data |-> <<>>,
                   base |-> 0, question |-> ""])
           /\ cmd_tasks' = DictSet(cmd_tasks, k, i)
           /\ sleeps' = Append(Without(sleeps, <<"flush", old>>),
                               <<"flush", i>>)
    /\ UNCHANGED <<incoming, tasks, batchObjs, batches, timers, tokens,
                   handles, fin, dispatched, notified, last_file_content,
                   calls, asked, chat, replies, messages, file_prompts,
                   prompts, limitVars, parseVars,
                   finished>>

\* _process from line 132 to its end or to its call of reply_func, for
\* flush f that took `data` and has the file content fc ("" for None),
\* `sl` being the tasks that sleep: nothing suspends.  The pending prompt
\* of the key is cancelled; file content without a question is added to
\* user_data and a new prompt task is made; otherwise the stored content
\* is taken and the question is handed to reply_func.
AfterFiles(f, data, fc, sl) ==
    LET k        == flushes[f].key
        base     == data[Len(data)]
        question == ExtractPrivate(FlushText(data), received[base].message)
        stored   == IF k \in DOMAIN last_file_content
                    THEN last_file_content[k] ELSE ""
        p        == IF k \in DOMAIN file_prompts THEN file_prompts[k] ELSE 0
        ps       == CancelPrompt(prompts, p)
        sl1      == Without(sl, <<"prompt", p>>)
        content  == IF stored # "" THEN stored \o "\n\n" \o fc ELSE fc
        final    == IF fc = "" THEN WithStored(question, stored)
                    ELSE question \o "\n\n" \o content
        ended(pc, q) == [flushes EXCEPT ![f].pc = pc, ![f].data = data,
                                        ![f].base = base, ![f].question = q]
    IN  IF fc # "" /\ question = ""
        THEN /\ last_file_content' = DictSet(last_file_content, k, content)
             /\ prompts' = Append(ps, [key |-> k, flush |-> f,
                                       pc |-> "sleeping", sent |-> FALSE])
             /\ file_prompts' = DictSet(file_prompts, k, Len(prompts) + 1)
             /\ sleeps' = Append(sl1, <<"prompt", Len(prompts) + 1>>)
             /\ flushes' = ended("stashed", "")
             /\ UNCHANGED asked
        ELSE /\ prompts' = ps
             /\ file_prompts' = DictPop(file_prompts, k)
             /\ sleeps' = sl1
             /\ IF question = "" /\ fc = ""
                THEN /\ flushes' = ended("ignored", "")
                     /\ UNCHANGED <<last_file_content, asked>>
                ELSE /\ last_file_content' = DictPop(last_file_content, k)
                     /\ flushes' = ended("asked", final)
                     /\ asked' = Append(asked,
                            [key |-> k, question |-> final,
                             text |-> question])

\* The sleep of _flush task f ends: the task takes the buffer of its key
\* and its own entry of _tasks, and calls _process, which suspends in
\* process_files when the buffer has a document or a photo.
FlushWake(f) ==
    /\ f \in 1..Len(flushes)
    /\ flushes[f].pc = "sleeping"
    /\ sleeps # <<>> /\ Head(sleeps) = <<"flush", f>>
    /\ LET k    == flushes[f].key
           data == IF k \in DOMAIN cmd_buffers THEN cmd_buffers[k] ELSE <<>>
       IN  /\ cmd_buffers' = PopBuffer(k)
           /\ cmd_tasks' = DictPop(cmd_tasks, k)
           /\ IF data = <<>>
              THEN /\ flushes' = [flushes EXCEPT ![f].pc = "empty"]
                   /\ sleeps' = Tail(sleeps)
                   /\ UNCHANGED <<last_file_content, asked, file_prompts,
                                  prompts>>
              ELSE IF FlushDocs(data) # <<>>
              THEN /\ flushes' = [flushes EXCEPT
                                      ![f].pc = "extracting",
                                      ![f].data = data,
                                      ![f].base = data[Len(data)]]
                   /\ sleeps' = Tail(sleeps)
                   /\ UNCHANGED <<last_file_content, asked, file_prompts,
                                  prompts>>
              ELSE AfterFiles(f, data, "", Tail(sleeps))
    /\ UNCHANGED <<incoming, tasks, batchObjs, batches, timers, tokens,
                   handles, fin, dispatched, notified, calls, chat, replies,
                   messages, received, limitVars, parseVars,
                   finished>>

\* process_files ends for flush f: its exception ends _process and the
\* task, its result lets _process go on.
FlushExtracted(f) ==
    /\ f \in 1..Len(flushes)
    /\ flushes[f].pc = "extracting"
    /\ \E outcome \in FileOutcomes :
           IF outcome = "raise"
           THEN /\ flushes' = [flushes EXCEPT ![f].pc = "raised"]
                /\ UNCHANGED <<last_file_content, asked, file_prompts,
                               prompts, sleeps>>
           ELSE AfterFiles(f, flushes[f].data,
                           IF outcome = "content"
                           THEN ProcessFiles(FlushDocs(flushes[f].data))
                           ELSE "",
                           sleeps)
    /\ UNCHANGED <<incoming, tasks, batchObjs, batches, timers, tokens,
                   handles, fin, dispatched, notified, calls, chat, replies,
                   messages, received, cmd_buffers, cmd_tasks, limitVars, parseVars,
                   finished>>

\* The sleep of prompt task p ends: the task returns when its key has a
\* buffer or a _flush task, calls reply_text when user_data has stored
\* content, and otherwise takes the key out of _file_prompts.
PromptWake(p) ==
    /\ p \in 1..Len(prompts)
    /\ prompts[p].pc = "sleeping"
    /\ sleeps # <<>> /\ Head(sleeps) = <<"prompt", p>>
    /\ sleeps' = Tail(sleeps)
    /\ LET k == prompts[p].key
       IN  IF \/ (k \in DOMAIN cmd_buffers /\ cmd_buffers[k] # <<>>)
              \/ k \in DOMAIN cmd_tasks
           THEN /\ prompts' = [prompts EXCEPT ![p].pc = "skipped"]
                /\ UNCHANGED file_prompts
           ELSE IF k \in DOMAIN last_file_content
                   /\ last_file_content[k] # ""
           THEN /\ prompts' = [prompts EXCEPT ![p].pc = "sending",
                                              ![p].sent = TRUE]
                /\ UNCHANGED file_prompts
           ELSE /\ prompts' = [prompts EXCEPT ![p].pc = "done"]
                /\ file_prompts' = DictPop(file_prompts, k)
    /\ UNCHANGED <<incoming, tasks, batchObjs, batches, timers, tokens,
                   handles, fin, dispatched, notified, last_file_content,
                   calls, asked, chat, replies, messages, received,
                   cmd_buffers, cmd_tasks, flushes, limitVars, parseVars,
                   finished>>

\* reply_text ends for prompt task p: the task takes the key out of
\* _file_prompts, or ends with the exception of reply_text.
PromptSent(p) ==
    /\ p \in 1..Len(prompts)
    /\ prompts[p].pc = "sending"
    /\ \/ /\ prompts' = [prompts EXCEPT ![p].pc = "done"]
          /\ file_prompts' = DictPop(file_prompts, prompts[p].key)
       \/ /\ prompts' = [prompts EXCEPT ![p].pc = "raised"]
          /\ UNCHANGED file_prompts
    /\ UNCHANGED <<incoming, tasks, batchObjs, batches, timers, tokens,
                   handles, fin, dispatched, notified, last_file_content,
                   calls, asked, chat, replies, messages, received,
                   cmd_buffers, cmd_tasks, flushes, sleeps, limitVars, parseVars,
                   finished>>

(***************************************************************************)
(* bot.reply_to called with the keywords it takes, as MessageCommand calls *)
(* it (message.py:226), for a message without attachment: the wrapper of   *)
(* with_message_limit, reply_to and _ask_question, with the history that   *)
(* the bot stores for each user.  The application runs its handlers        *)
(* concurrently (concurrent_updates), so calls for one user interleave at  *)
(* their awaits.                                                           *)
(***************************************************************************)
\* The arguments of a call: the question, whether the chat of the message
\* is private, whether the message was forwarded, and the text of the
\* bot's message it replies to ("" when it does not).
Question(question, private, forward_date, prev) ==
    [question |-> question, private |-> private,
     forward_date |-> forward_date, prev |-> prev]

\* A question and a follow-up as questions.extract_private make them, a
\* follow-up as a user types it, an empty prompt, a forwarded message, and
\* a follow-up in a group chat.
HistoryInputs ==
    {Question("Q", TRUE, FALSE, ""), Question("+ Q", TRUE, FALSE, ""),
     Question("+Q", TRUE, FALSE, ""), Question("", TRUE, FALSE, ""),
     Question("Q", TRUE, TRUE, ""), Question("+ Q", FALSE, FALSE, "P")}

\* The answer to a forwarded message in a private chat.
ForwardedAnswer == "This is a forwarded message. What should I do with it?"

\* The answers of the model.
Answers == {"answer"}

\* The store of the (question, answer) pairs of a user: add, clear and
\* as_list, which returns a list of its own.
MessagesAdd(stored, question, answer) == Append(stored, <<question, answer>>)

MessagesClear(stored) == <<>>

MessagesAsList(stored) == stored

\* A slip: only "+ ", the plus sign and a space, marks a follow-up.
PrepareMarkerWithSpace(question) ==
    IF question = ""
    THEN [raises |-> TRUE, question |-> "", is_follow_up |-> FALSE]
    ELSE LET plus == StartsWith(question, "+ ")
             asked1 == IF plus THEN Strip(question, {"+", " "}) ELSE question
         IN  IF asked1 = ""
             THEN [raises |-> TRUE, question |-> "", is_follow_up |-> plus]
             ELSE IF SubSeq(asked1, 1, 1) = "/"
             THEN [raises |-> FALSE, is_follow_up |-> plus,
                   question |-> Strip(AfterSpace(asked1), {" ", "\n"})]
             ELSE [raises |-> FALSE, is_follow_up |-> plus,
                   question |-> asked1]

\* questions.prepare for a question that is not a shortcut ("!..."): a
\* first character "+" makes a follow-up, and the question loses the plus
\* signs and spaces at its ends; a command loses its first word.
\* question[0] raises IndexError for an empty string, at line 122 or, once
\* the marker is stripped, at line 128.
Prepare(question) ==
    IF question = ""
    THEN [raises |-> TRUE, question |-> "", is_follow_up |-> FALSE]
    ELSE LET plus == SubSeq(question, 1, 1) = "+"
             asked1 == IF plus THEN Strip(question, {"+", " "}) ELSE question
         IN  IF asked1 = ""
             THEN [raises |-> TRUE, question |-> "", is_follow_up |-> plus]
             ELSE IF SubSeq(asked1, 1, 1) = "/"
             THEN [raises |-> FALSE, is_follow_up |-> plus,
                   question |-> Strip(AfterSpace(asked1), {" ", "\n"})]
             ELSE [raises |-> FALSE, is_follow_up |-> plus,
                   question |-> asked1]

\* The wrapper is called for a message of user k: it refuses a user who
\* is over the message limit, and calls reply_to otherwise, which logs and
\* suspends in send_action.
ReplyToCall(k, in) ==
    /\ Len(replies) < MaxReplies
    /\ \E refused \in BOOLEAN :
           replies' = Append(replies,
               [key |-> k, question |-> in.question,
                private |-> in.private, forward_date |-> in.forward_date,
                prev |-> in.prev,
                pc |-> IF refused THEN "refused" ELSE "typing",
                prepared |-> "", is_follow_up |-> FALSE,
                history |-> <<>>, answer |-> ""])
    /\ UNCHANGED <<incoming, tasks, batchObjs, batches, timers, tokens,
                   handles, fin, dispatched, notified, last_file_content,
                   calls, asked, chat, messages, handlerVars, finished>>

\* send_action ends.  Its exception leaves reply_to, which awaits it
\* outside its try.  Otherwise reply_to answers a forwarded message of a
\* private chat itself, stores the pair and suspends in asker.reply; for
\* any other message _ask_question prepares the question and suspends in
\* substitute_urls, and the exception of prepare goes to the except clause
\* of reply_to.
ReplyToBegin(r) ==
    /\ r \in 1..Len(replies)
    /\ replies[r].pc = "typing"
    /\ LET c == replies[r]
           p == Prepare(c.question)
       IN  \/ /\ replies' = [replies EXCEPT ![r].pc = "raised"]
              /\ UNCHANGED messages
           \/ IF c.private /\ c.forward_date
              THEN /\ replies' = [replies EXCEPT
                                      ![r].pc = "replying",
                                      ![r].answer = ForwardedAnswer]
                   /\ messages' = [messages EXCEPT ![c.key] =
                          MessagesAdd(@, c.question, ForwardedAnswer)]
              ELSE /\ replies' = [replies EXCEPT
                          ![r].pc = IF p.raises THEN "error" ELSE "fetching",
                          ![r].prepared = p.question,
                          ![r].is_follow_up = p.is_follow_up]
                   /\ UNCHANGED messages
    /\ UNCHANGED <<incoming, tasks, batchObjs, batches, timers, tokens,
                   handles, fin, dispatched, notified, last_file_content,
                   calls, asked, chat, handlerVars, finished>>

\* substitute_urls ends.  When it returns, _ask_question chooses the
\* history, clears the stored one for a question from scratch in a private
\* chat, and suspends in asker.ask.
AskQuestion(r) ==
    /\ r \in 1..Len(replies)
    /\ replies[r].pc = "fetching"
    /\ LET c == replies[r]
       IN  \/ /\ replies' = [replies EXCEPT ![r].pc = "error"]
              /\ UNCHANGED messages
           \/ IF c.private
              THEN IF c.is_follow_up
                   THEN /\ replies' = [replies EXCEPT
                               ![r].pc = "asking",
                               ![r].history = MessagesAsList(messages[c.key])]
                        /\ UNCHANGED messages
                   ELSE /\ replies' = [replies EXCEPT ![r].pc = "asking",
                                                      ![r].history = <<>>]
                        /\ messages' = [messages EXCEPT ![c.key] =
                                            MessagesClear(@)]
              ELSE /\ replies' = [replies EXCEPT
                          ![r].pc = "asking",
                          ![r].history = IF c.prev # ""
                                         THEN << <<"", c.prev>> >>
                                         ELSE <<>>]
                   /\ UNCHANGED messages
    /\ UNCHANGED <<incoming, tasks, batchObjs, batches, timers, tokens,
                   handles, fin, dispatched, notified, last_file_content,
                   calls, asked, chat, handlerVars, finished>>

\* asker.ask ends.  reply_to stores the question it was called with and
\* the answer, and suspends in asker.reply; an exception goes to its
\* except clause.
AskReturn(r) ==
    /\ r \in 1..Len(replies)
    /\ replies[r].pc = "asking"
    /\ LET c == replies[r]
       IN  \/ /\ replies' = [replies EXCEPT ![r].pc = "error"]
              /\ UNCHANGED messages
           \/ \E answer \in Answers :
                  /\ replies' = [replies EXCEPT ![r].pc = "replying",
                                                ![r].answer = answer]
                  /\ messages' = [messages EXCEPT ![c.key] =
                                      MessagesAdd(@, c.question, answer)]
    /\ UNCHANGED <<incoming, tasks, batchObjs, batches, timers, tokens,
                   handles, fin, dispatched, notified, last_file_content,
                   calls, asked, chat, handlerVars, finished>>

\* The last send of a call ends: the refusal of the wrapper, the answer,
\* or the text of the exception that reply_to caught.  The call returns,
\* or ends in the exception of the send.
ReplyToEnd(r) ==
    /\ r \in 1..Len(replies)
    /\ replies[r].pc \in {"refused", "replying", "error"}
    /\ \E pc \in {"done", "raised"} :
           replies' = [replies EXCEPT ![r].pc = pc]
    /\ UNCHANGED <<incoming, tasks, batchObjs, batches, timers, tokens,
                   handles, fin, dispatched, notified, last_file_content,
                   calls, asked, chat, messages, handlerVars, finished>>

(***************************************************************************)
(* with_message_limit (bot.py:148-180): the wrapper around reply_to, which *)
(* the application calls for updates it handles concurrently.  The counter *)
(* of a user does not expire in a run: the run is within one of its        *)
(* windows.                                                                *)
(***************************************************************************)
\* config.conversation.message_limit.count
LimitCount == 1

\* The users filters.is_known_user knows.
KnownUsers == {2}

\* is_expired() within the window
IsExpired(k) == FALSE

\* The condition of the wrapper under which it refuses the user.
OverLimit(k) ==
    /\ k \notin KnownUsers
    /\ message_counter[k] >= LimitCount
    /\ LimitCount > 0
    /\ ~IsExpired(k)

\* The wrapper is called for a message of user k: over the limit it
\* suspends in the reply_text of its refusal, otherwise in the handler it
\* wraps.
WrapperCall(k) ==
    /\ Len(wraps) < MaxWraps
    /\ wraps' = Append(wraps, [key |-> k,
                               pc |-> IF OverLimit(k) THEN "refusing"
                                      ELSE "handling"])
    /\ UNCHANGED <<incoming, tasks, batchObjs, batches, timers, tokens,
                   handles, fin, dispatched, notified, last_file_content,
                   calls, asked, chat, replies, messages, commandVars,
                   message_counter, parseVars, finished>>

\* The handler returns, and the wrapper increments the counter of the
\* user; or the handler ends in an exception, which ends the wrapper.
WrapperHandled(w) ==
    /\ w \in 1..Len(wraps)
    /\ wraps[w].pc = "handling"
    /\ \/ /\ wraps' = [wraps EXCEPT ![w].pc = "done"]
          /\ message_counter' =
                 [message_counter EXCEPT ![wraps[w].key] = @ + 1]
       \/ /\ wraps' = [wraps EXCEPT ![w].pc = "raised"]
          /\ UNCHANGED message_counter
    /\ UNCHANGED <<incoming, tasks, batchObjs, batches, timers, tokens,
                   handles, fin, dispatched, notified, last_file_content,
                   calls, asked, chat, replies, messages, commandVars,
                   parseVars, finished>>

\* The reply_text of the refusal ends, and with it the wrapper.
WrapperRefused(w) ==
    /\ w \in 1..Len(wraps)
    /\ wraps[w].pc = "refusing"
    /\ \E pc \in {"refused", "raised"} :
           wraps' = [wraps EXCEPT ![w].pc = pc]
    /\ UNCHANGED <<incoming, tasks, batchObjs, batches, timers, tokens,
                   handles, fin, dispatched, notified, last_file_content,
                   calls, asked, chat, replies, messages, commandVars,
                   message_counter, parseVars, finished>>

(***************************************************************************)
(* ParseManyCommand (src/bot/commands/parsemany.py): /parsemany and        *)
(* cleanup_all_sessions, in runs without /parseit.  The commands of a chat *)
(* are handled concurrently, like every update.                            *)
(***************************************************************************)
\* The chats /parsemany comes from.
ParseChats == {1, 2}

\* active_sessions.keys()
SessionChats(sessions) == {sessions[j].chat : j \in 1..Len(sessions)}

\* active_sessions[chat] = session: a key that is there keeps its place
SessionSet(sessions, c, session) ==
    IF c \in SessionChats(sessions)
    THEN [j \in 1..Len(sessions) |->
             IF sessions[j].chat = c
             THEN [chat |-> c, session |-> session] ELSE sessions[j]]
    ELSE Append(sessions, [chat |-> c, session |-> session])

\* __call__ for a /parsemany of chat c, to its first await: the reply_text
\* of the rejection when the chat has a session, and of the instructions
\* otherwise.
ParseManyCall(c) ==
    /\ Len(parse_calls) < MaxParses
    /\ parse_calls' = Append(parse_calls,
           [chat |-> c,
            pc |-> IF c \in SessionChats(active_sessions) THEN "rejecting"
                   ELSE "starting"])
    /\ UNCHANGED <<incoming, tasks, batchObjs, batches, timers, tokens,
                   handles, fin, dispatched, notified, last_file_content,
                   calls, asked, chat, replies, messages, commandVars,
                   limitVars, active_sessions, cleanup, cleaned, finished>>

\* The reply_text of the instructions ends: __call__ stores the session it
\* makes under the chat, or ends with the exception of reply_text.
ParseManyStarted(i) ==
    /\ i \in 1..Len(parse_calls)
    /\ parse_calls[i].pc = "starting"
    /\ \/ /\ parse_calls' = [parse_calls EXCEPT ![i].pc = "done"]
          /\ active_sessions' =
                 SessionSet(active_sessions, parse_calls[i].chat, i)
       \/ /\ parse_calls' = [parse_calls EXCEPT ![i].pc = "raised"]
          /\ UNCHANGED active_sessions
    /\ UNCHANGED <<incoming, tasks, batchObjs, batches, timers, tokens,
                   handles, fin, dispatched, notified, last_file_content,
                   calls, asked, chat, replies, messages, commandVars,
                   limitVars, cleanup, cleaned, finished>>

\* The reply_text of the rejection ends, and with it __call__.
ParseManyRejected(i) ==
    /\ i \in 1..Len(parse_calls)
    /\ parse_calls[i].pc = "rejecting"
    /\ \E pc \in {"rejected", "raised"} :
           parse_calls' = [parse_calls EXCEPT ![i].pc = pc]
    /\ UNCHANGED <<incoming, tasks, batchObjs, batches, timers, tokens,
                   handles, fin, dispatched, notified, last_file_content,
                   calls, asked, chat, replies, messages, commandVars,
                   limitVars, active_sessions, cleanup, cleaned, finished>>

\* cleanup_all_sessions to its first await: with no session the loop has
\* nothing to do; otherwise it calls the cleanup_callback of the session of
\* the first key and suspends in it.
CleanupStart ==
    /\ cleanup.pc = "idle"
    /\ IF active_sessions = <<>>
       THEN /\ cleanup' = [cleanup EXCEPT !.pc = "done"]
            /\ UNCHANGED cleaned
       ELSE /\ cleanup' = [pc |-> "awaiting", sessions |-> active_sessions,
                           chat |-> active_sessions[1].chat]
            /\ cleaned' = Append(cleaned, active_sessions[1].session)
    /\ UNCHANGED <<incoming, tasks, batchObjs, batches, timers, tokens,
                   handles, fin, dispatched, notified, last_file_content,
                   calls, asked, chat, replies, messages, commandVars,
                   limitVars, active_sessions, parse_calls, finished>>

\* The cleanup_callback returns (it catches what delete_message raises):
\* the loop deletes the key and, still in its first round, clears
\* active_sessions (line 49).  Every later round finds its key gone, logs
\* the KeyError of line 44 and clears again, without an await: no other
\* callback is called.
CleanupResume ==
    /\ cleanup.pc = "awaiting"
    /\ cleanup' = [cleanup EXCEPT !.pc = "done"]
    /\ active_sessions' = <<>>
    /\ UNCHANGED <<incoming, tasks, batchObjs, batches, timers, tokens,
                   handles, fin, dispatched, notified, last_file_content,
                   calls, asked, chat, replies, messages, commandVars,
                   limitVars, parse_calls, cleaned, finished>>

(***************************************************************************)
(* The specification.                                                      *)
(***************************************************************************)
\* BatchProcessor.__init__, and nothing received yet
Init ==
    /\ incoming = <<>>
    /\ tasks = <<>>
    /\ batchObjs = EmptyDict
    /\ batches = EmptyDict
    /\ timers = EmptyDict
    /\ tokens = EmptyDict
    /\ handles = <<>>
    /\ fin = EmptyDict
    /\ dispatched = <<>>
    /\ notified = <<>>
    /\ last_file_content = EmptyDict
    /\ calls = <<>>
    /\ asked = <<>>
    /\ chat = <<>>
    /\ replies = <<>>
    /\ messages = [k \in Keys |-> <<>>]
    /\ received = <<>>
    /\ cmd_buffers = EmptyDict
    /\ cmd_tasks = EmptyDict
    /\ file_prompts = EmptyDict
    /\ flushes = <<>>
    /\ prompts = <<>>
    /\ sleeps = <<>>
    /\ wraps = <<>>
    /\ message_counter = [k \in Keys |-> 0]
    /\ active_sessions = <<>>
    /\ parse_calls = <<>>
    /\ cleanup = [pc |-> "idle", sessions |-> <<>>, chat |-> 0]
    /\ cleaned = <<>>
    /\ finished = <<>>

\* The timers and the _finalize_batch tasks, but for the end of their
\* calls of reply_func.
Finalization ==
    \/ \E h \in 1..Len(handles) : TimerFire(h)
    \/ \E h \in DOMAIN fin : FinalizeStart(h)
    \/ \E h \in DOMAIN fin : FinalizeResume(h)
    \/ \E h \in DOMAIN fin : NotifyReturn(h)
    \/ \E h \in DOMAIN fin : NotifyRaise(h)

\* What the event loop runs of the BatchProcessor itself: the process()
\* tasks, the timers and the _finalize_batch tasks, but for the end of
\* their calls of reply_func.
Engine ==
    \/ \E i \in 1..Len(incoming) :
           \E f \in FileChoices(incoming[i].message),
              v \in VoiceChoices(incoming[i].message) : ProcessDone(i, f, v)
    \/ Finalization

\* What the event loop runs besides the handlers that call add_message,
\* reply_func being any coroutine function: its calls return or raise.
Run ==
    \/ Engine
    \/ \E h \in DOMAIN fin : DispatchReturn(h)
    \/ \E h \in DOMAIN fin : DispatchRaise(h)

Next ==
    \/ \E in \in Inputs : AddMessage(in[1], in[2])
    \/ Run

Spec == Init /\ [][Next]_vars

\* One user, who also sends voice messages.
NextMerge ==
    \/ \E in \in MergeInputs : AddMessage(in[1], in[2])
    \/ Run

SpecMerge == Init /\ [][NextMerge]_vars

\* One user, who also replies to messages of the bot.
NextReply ==
    \/ \E in \in ReplyInputs : AddMessage(in[1], in[2])
    \/ Run

SpecReply == Init /\ [][NextReply]_vars

\* One user who sends documents with different contents; the order in
\* which the process() tasks end is kept.
NextOrder ==
    \/ \E in \in OrderInputs : AddMessage(in[1], in[2])
    \/ \E i \in 1..Len(incoming) :
           \E f \in FileChoices(incoming[i].message),
              v \in VoiceChoices(incoming[i].message) :
                  ProcessDoneInOrder(i, f, v)
    \/ Finalization
    \/ \E h \in DOMAIN fin : DispatchReturn(h)
    \/ \E h \in DOMAIN fin : DispatchRaise(h)

SpecOrder == Init /\ [][NextOrder]_vars

\* One user whose messages carry a document and a voice attachment.
NextVoiceFile ==
    \/ \E in \in VoiceFileInputs : AddMessage(in[1], in[2])
    \/ Run

SpecVoiceFile == Init /\ [][NextVoiceFile]_vars

\* One user in a group chat, and bot.reply_to as reply_func.
NextGroup ==
    \/ \E in \in GroupInputs : AddMessage(in[1], in[2])
    \/ Engine
    \/ \E h \in DOMAIN fin : ReplyTo(h)

SpecGroup == Init /\ [][NextGroup]_vars

\* The BatchProcessor with one user, and MessageCommand, to which the
\* application hands the text messages of its users.
NextStash ==
    \/ \E in \in StashInputs : AddMessage(in[1], in[2])
    \/ Run
    \/ \E k \in Keys, q \in Questions : ProcessText(k, q)

SpecStash == Init /\ [][NextStash]_vars

\* MessageCommand with one user.
NextCommand ==
    \/ \E in \in CommandInputs : MessageCall(in[1], in[2])
    \/ \E f \in 1..Len(flushes) : FlushWake(f)
    \/ \E f \in 1..Len(flushes) : FlushExtracted(f)
    \/ \E p \in 1..Len(prompts) : PromptWake(p)
    \/ \E p \in 1..Len(prompts) : PromptSent(p)

SpecCommand == Init /\ [][NextCommand]_vars

\* The wrapper of with_message_limit with two users, one of them known.
NextLimit ==
    \/ \E k \in Keys : WrapperCall(k)
    \/ \E w \in 1..Len(wraps) : WrapperHandled(w)
    \/ \E w \in 1..Len(wraps) : WrapperRefused(w)

SpecLimit == Init /\ [][NextLimit]_vars

\* ParseManyCommand with two chats.
NextParse ==
    \/ \E c \in ParseChats : ParseManyCall(c)
    \/ \E i \in 1..Len(parse_calls) : ParseManyStarted(i)
    \/ \E i \in 1..Len(parse_calls) : ParseManyRejected(i)
    \/ CleanupStart
    \/ CleanupResume

SpecParse == Init /\ [][NextParse]_vars

\* One user whose text messages reach bot.reply_to.
NextHistory ==
    \/ \E in \in HistoryInputs : ReplyToCall(1, in)
    \/ \E r \in 1..Len(replies) : ReplyToBegin(r)
    \/ \E r \in 1..Len(replies) : AskQuestion(r)
    \/ \E r \in 1..Len(replies) : AskReturn(r)
    \/ \E r \in 1..Len(replies) : ReplyToEnd(r)

SpecHistory == Init /\ [][NextHistory]_vars


(***************************************************************************)
(* Vocabulary of the properties.                                           *)
(***************************************************************************)
\* The add_message calls made for key k, by their index.
CallsOf(k) == {i \in 1..Len(calls) : calls[i].key = k}

\* The reply_func calls made for key k, by their index in the log.
DispatchesOf(k) == {d \in 1..Len(dispatched) : dispatched[d].key = k}

\* The "This is a file" prompts sent for key k.
NotifiesOf(k) == {d \in 1..Len(notified) : notified[d].key = k}

\* The first of a non-empty set of indices.
First(S) == CHOOSE i \in S : \A j \in S : i <= j

\* The indices of S in increasing order.
RECURSIVE InOrder(_)
InOrder(S) == IF S = {} THEN <<>> ELSE <<First(S)>> \o InOrder(S \ {First(S)})

\* What the user wrote in message m.
UserText(m) == IF m.caption # "" THEN m.caption ELSE m.text

\* Key k has no timer armed and no finalization under way.
Settled(k) ==
    /\ \A h \in 1..Len(handles) :
           handles[h].key = k => handles[h].state # "armed"
    /\ \A h \in DOMAIN fin :
           fin[h].key = k =>
               fin[h].pc \notin {"created", "waiting", "dispatch", "notify"}

\* All the calls made for key k so far are one burst: the first met a key
\* with no state, each later one a key whose timer was armed.
Burst(k) ==
    /\ CallsOf(k) # {}
    /\ \A i \in CallsOf(k) :
           calls[i].phase = IF i = First(CallsOf(k)) THEN "absent"
                            ELSE "collecting"

(***************************************************************************)
(* C1.  N >= 1 add_message calls for one key that all arrive before the   *)
(* key's timer expires, one of them at least with user text: reply_func is *)
(* never called twice for the key, every call of it is made with all the   *)
(* N items and a prompt that holds what each user wrote and what was       *)
(* extracted for each, and once the key has settled reply_func has been    *)
(* called exactly once.                                                    *)
(***************************************************************************)
C1_ExactlyOnceDispatch ==
    \A k \in Keys :
        (Burst(k) /\ \E i \in CallsOf(k) : incoming[i].has_text) =>
            /\ Cardinality(DispatchesOf(k)) <= 1
            /\ Settled(k) => Cardinality(DispatchesOf(k)) = 1
            /\ \A d \in DispatchesOf(k) :
                   /\ dispatched[d].items = InOrder(CallsOf(k))
                   /\ \A i \in CallsOf(k) :
                          /\ Contains(dispatched[d].question,
                                      UserText(incoming[i].message))
                          /\ Contains(dispatched[d].question,
                                      incoming[i].content)

\* C1: a burst of two calls, a text and a document, has settled with the
\* one dispatch made.
C1_Witness ==
    \E k \in Keys :
        /\ Burst(k) /\ Settled(k)
        /\ Cardinality(CallsOf(k)) = 2
        /\ Cardinality(DispatchesOf(k)) = 1
        /\ \E i \in CallsOf(k) : incoming[i].content = "world"
        /\ \E i \in CallsOf(k) : incoming[i].message.text = "A"


(***************************************************************************)
(* C2.  At no time are two reply_func calls for the same key in progress.  *)
(***************************************************************************)
C2_NoConcurrentDispatch ==
    \A k \in Keys :
        Cardinality({h \in DOMAIN fin :
                        fin[h].key = k /\ fin[h].pc = "dispatch"}) <= 1

(***************************************************************************)
(* C3.  The first step of a _finalize_batch(key, T) whose T is not the     *)
(* token stored for the key ends the task there: nothing is dispatched,    *)
(* no prompt is sent, and batches, timers, tokens and the objects they     *)
(* hold stay as they were.                                                 *)
(***************************************************************************)
C3_StaleTimerNoOp ==
    [][\A h \in DOMAIN fin :
          (/\ fin[h].pc = "created"
           /\ fin'[h].pc # "created"
           /\ (fin[h].key \notin DOMAIN tokens
                  \/ tokens[fin[h].key] # fin[h].token))
          => /\ fin'[h].pc = "skipped"
             /\ UNCHANGED <<batches, timers, tokens, handles, batchObjs,
                            incoming, tasks, dispatched, notified,
                            last_file_content>>]_vars

\* C3: a firing has been skipped as stale while its key had a batch, a
\* timer and a newer token.
C3_Witness ==
    \E h \in DOMAIN fin :
        /\ fin[h].pc = "skipped"
        /\ fin[h].key \in DOMAIN batches
        /\ fin[h].key \in DOMAIN timers
        /\ tokens[fin[h].key] > fin[h].token

(***************************************************************************)
(* C4.  When a finalization that ran with the key's current token ends,    *)
(* reply_func having returned or raised, the key has no batch, no timer    *)
(* and no token; and an add_message call that comes after a finalization   *)
(* of its key has ended, the key being settled, gets a batch that holds    *)
(* the new item alone.                                                     *)
(***************************************************************************)
C4_TeardownWinOrLose ==
    [][/\ \A h \in DOMAIN fin :
              (fin[h].pc = "dispatch" /\ fin'[h].pc \in {"done", "raised"})
              => /\ fin[h].key \notin DOMAIN batches'
                 /\ fin[h].key \notin DOMAIN timers'
                 /\ fin[h].key \notin DOMAIN tokens'
       /\ \A k \in Keys :
              (/\ Len(calls') = Len(calls) + 1
               /\ calls'[Len(calls')].key = k
               /\ Settled(k)
               /\ \E h \in DOMAIN fin :
                      fin[h].key = k /\ fin[h].pc \in {"done", "raised"})
              => batchObjs'[batches'[k]].messages = <<Len(calls')>>]_vars

(***************************************************************************)
(* C5.  An item added while the previous batch of its key is finalizing    *)
(* starts a batch of its own, and once the key has settled the item has    *)
(* reached reply_func or the "This is a file" prompt.                      *)
(***************************************************************************)
C5_NewBatchWhileFinalizing ==
    \A i \in 1..Len(calls) :
        calls[i].phase = "finalizing" =>
            /\ \A b \in DOMAIN batchObjs :
                   i \in Range(batchObjs[b].messages) => b = i
            /\ Settled(calls[i].key) =>
                   \/ \E d \in DispatchesOf(calls[i].key) :
                          i \in Range(dispatched[d].items)
                   \/ \E d \in NotifiesOf(calls[i].key) :
                          i \in Range(notified[d].items)

(***************************************************************************)
(* C6.  No item is part of more than one reply_func call.                  *)
(***************************************************************************)
C6_ItemDispatchedAtMostOnce ==
    \A i \in 1..Len(incoming) :
        Cardinality({d \in 1..Len(dispatched) :
                        i \in Range(dispatched[d].items)}) <= 1

(***************************************************************************)
(* C7.  N add_message calls for one key, each with user text, none of      *)
(* which arrives while a timer of the key is armed or a finalization of    *)
(* the key has ended in an exception: once the key has settled reply_func  *)
(* has been called N times, once for each call and with that call's item   *)
(* alone.                                                                  *)
(***************************************************************************)
C7_DebounceRearm ==
    \A k \in Keys :
        (/\ Settled(k)
         /\ \A i \in CallsOf(k) :
                /\ calls[i].phase \in {"absent", "finalizing"}
                /\ incoming[i].has_text)
        => /\ Cardinality(DispatchesOf(k)) = Cardinality(CallsOf(k))
           /\ \A i \in CallsOf(k) :
                  \E d \in DispatchesOf(k) : dispatched[d].items = <<i>>


\* The calls of reply_func and of the "This is a file" prompt.
Sent == Range(dispatched) \cup Range(notified)

\* What the users wrote in the items of a call, one line for each.
TextOf(items) ==
    Join("\n", NonEmpty([j \in 1..Len(items) |->
                            UserText(incoming[items[j]].message)]))

\* The prompt of a call without its follow-up marker.
Body(c) ==
    IF \E j \in Range(c.items) : incoming[j].message.reply
    THEN SubSeq(c.question, 3, Len(c.question))
    ELSE c.question

\* The add_message calls made for key 1 are TextA and then, while the timer
\* of the first was armed, TextB.
ScenarioAB ==
    /\ Cardinality(CallsOf(1)) = 2
    /\ Burst(1)
    /\ \A i \in CallsOf(1) :
           incoming[i].message = IF i = First(CallsOf(1)) THEN TextA
                                 ELSE TextB

\* The scenario of C8 with `prompt` as the prompt that is dispatched:
\* reply_func is never called twice, every call of it is made by the
\* finalization that the timer of the second add_message call started,
\* with `prompt`, and it has been called once the key has settled.
DispatchedOnceAs(prompt) ==
    ScenarioAB =>
        /\ Cardinality(DispatchesOf(1)) <= 1
        /\ Settled(1) => Cardinality(DispatchesOf(1)) = 1
        /\ \A d \in DispatchesOf(1) :
               /\ dispatched[d].question = prompt
               /\ dispatched[d].task = First(CallsOf(1) \ {First(CallsOf(1))})
               /\ handles[dispatched[d].task].state = "fired"

(***************************************************************************)
(* C8, as claimed.  add_message(key=1, text="A"), then within the buffer   *)
(* window add_message(key=1, text="B"): reply_func is called once, after   *)
(* the timer of the second call expired, with the prompt "A\n\nB".         *)
(***************************************************************************)
C8_Original == DispatchedOnceAs("A\n\nB")

(***************************************************************************)
(* C8, amended.  The same, with the prompt "A\nB": the texts of a batch    *)
(* are joined by one newline.                                              *)
(***************************************************************************)
C8_MergedTexts == DispatchedOnceAs("A\nB")

\* C8: the scenario has run to its end, the one dispatch made.
C8_Witness ==
    /\ ScenarioAB
    /\ Settled(1)
    /\ \E d \in DispatchesOf(1) : dispatched[d].items = InOrder(CallsOf(1))

(***************************************************************************)
(* C9.  In every prompt handed out, what the users wrote comes first and   *)
(* every extracted content after it, whatever the order of the items; a    *)
(* batch of the photo captioned "hello" and of the document from which     *)
(* "world" was extracted gives "hello\n\nworld" in either order.           *)
(***************************************************************************)
C9_TextBeforeContent ==
    \A c \in Sent :
        /\ StartsWith(Body(c), TextOf(c.items))
        /\ \A j \in Range(c.items) :
               incoming[j].content # "" =>
                   Contains(SubSeq(Body(c), Len(TextOf(c.items)) + 1,
                                   Len(Body(c))),
                            incoming[j].content)
        /\ (/\ Len(c.items) = 2
            /\ {incoming[j].message : j \in Range(c.items)}
                   = {PhotoHello, DocWorld}
            /\ \E j \in Range(c.items) : incoming[j].content = "world")
           => c.question = "hello\n\nworld"

\* C9: the document arrived first, the captioned photo second, and the
\* caption leads the prompt.
C9_Witness ==
    \E c \in Range(dispatched) :
        /\ Len(c.items) = 2
        /\ incoming[c.items[1]].message = DocWorld
        /\ incoming[c.items[1]].content = "world"
        /\ incoming[c.items[2]].message = PhotoHello
        /\ c.question = "hello\n\nworld"

(***************************************************************************)
(* C10.  An extraction that raises ends no finalization: a finalization    *)
(* ends in an exception only of reply_func or of reply_text.  In every     *)
(* prompt handed out, each item's task has ended, an item whose task       *)
(* raised has no content, and the content of every other item holds what   *)
(* was extracted for it and is part of the prompt.                         *)
(***************************************************************************)
C10_PartialExtractionFailure ==
    /\ \A h \in DOMAIN fin :
           fin[h].pc = "raised" => fin[h].err \in {"dispatch", "notify"}
    /\ \A c \in Sent :
           \A j \in Range(c.items) :
               /\ tasks[j] # "pending"
               /\ tasks[j] = "failed" => incoming[j].content = ""
               /\ tasks[j] = "done" =>
                      /\ Contains(incoming[j].content,
                                  incoming[j].message.docText)
                      /\ Contains(c.question, incoming[j].content)

\* C10: a batch with an item whose extraction raised has been dispatched,
\* with the content of the other item.
C10_Witness ==
    \E c \in Range(dispatched) :
        /\ \E j \in Range(c.items) : tasks[j] = "failed"
        /\ \E j \in Range(c.items) :
               tasks[j] = "done" /\ incoming[j].content = "world"
        /\ Contains(c.question, "world")


\* The items are documents or photos and nothing else: no text, no caption,
\* no voice.
OnlyFiles(items) ==
    /\ items # <<>>
    /\ \A j \in Range(items) :
           /\ incoming[j].message.doc
           /\ incoming[j].message.text = ""
           /\ incoming[j].message.caption = ""
           /\ ~incoming[j].message.voice

\* The finalizations that got past the wait for their batch's tasks.
Finalized ==
    {h \in DOMAIN fin :
        \/ fin[h].pc \in {"dispatch", "notify", "done"}
        \/ fin[h].pc = "raised" /\ fin[h].err \in {"dispatch", "notify"}}

(***************************************************************************)
(* C11.  A batch made only of photos or documents without caption and      *)
(* without text is finalized by sending "This is a file. What should I do  *)
(* with it?": every finalization sends the prompt or calls reply_func,     *)
(* and for such a batch it is the prompt, never reply_func.                *)
(***************************************************************************)
C11_FileOnlyNotifies ==
    /\ \A h \in Finalized : \E c \in Sent : c.task = h
    /\ \A c \in Sent :
           OnlyFiles(c.items) =>
               c \in Range(notified) /\ c \notin Range(dispatched)

\* C11: the batch of one document without caption has been finalized, the
\* prompt sent.
C11_Witness ==
    \E c \in Range(notified) :
        /\ Len(c.items) = 1
        /\ incoming[c.items[1]].message = DocWorld
        /\ fin[c.task].pc = "done"

(***************************************************************************)
(* C12.  A batch of voice and file items none of which has a caption or a  *)
(* text is not handed to reply_func: every call of reply_func is made for  *)
(* a batch with an item that has a text or a caption.                      *)
(***************************************************************************)
C12_NoTextNoDispatch ==
    \A c \in Range(dispatched) :
        \E j \in Range(c.items) :
            incoming[j].message.text # "" \/ incoming[j].message.caption # ""

\* The merge of batch b is empty: no text, no caption, no content.
EmptyMerge(b) == b.caption = "" /\ ContentParts(b) = <<>>

(***************************************************************************)
(* C13.  A finalization that finds the merge of its batch empty calls      *)
(* neither reply_func nor reply_text and ends with the batch, the timer    *)
(* and the token of its key removed.                                       *)
(***************************************************************************)
C13_EmptyBatchSilent ==
    [][\A h \in DOMAIN fin :
          (/\ fin[h].pc \in {"created", "waiting"}
           /\ fin'[h].pc \notin {"created", "waiting", "skipped", "nobatch"}
           /\ EmptyMerge(batchObjs[fin'[h].batch]))
          => /\ fin'[h].pc = "done"
             /\ UNCHANGED <<dispatched, notified>>
             /\ fin[h].key \notin DOMAIN batches'
             /\ fin[h].key \notin DOMAIN timers'
             /\ fin[h].key \notin DOMAIN tokens']_vars

Merged(items) ==
    Join("\n\n",
         NonEmpty(<<TextOf(items),
                    Join("\n\n", NonEmpty([j \in 1..Len(items) |->
                                              incoming[items[j]].content]))>>))

(***************************************************************************)
(* C15.  The prompt of a batch with one item or more that is a reply to a  *)
(* message of the bot is the merge of the batch with "+ " put in front of  *)
(* it once, however many such items there are; the prompt of a batch       *)
(* without such an item is the merge as it is.                             *)
(***************************************************************************)
C15_FollowUpMarker ==
    \A c \in Sent :
        /\ ~StartsWith(Merged(c.items), "+ ")
        /\ c.question =
               IF \E j \in Range(c.items) : incoming[j].message.reply
               THEN "+ " \o Merged(c.items)
               ELSE Merged(c.items)

\* C15: a batch of two replies to the bot has been dispatched, with one
\* marker.
C15_Witness ==
    \E c \in Range(dispatched) :
        /\ Len(c.items) = 2
        /\ \A j \in Range(c.items) : incoming[j].message.reply
        /\ c.question = "+ B\nB"

(***************************************************************************)
(* C16.  No _finalize_batch task ends in an exception, whether an          *)
(* extraction, reply_func or reply_text raised.                            *)
(***************************************************************************)
C16_NoEscapingException ==
    \A h \in DOMAIN fin : fin[h].pc # "raised"

(***************************************************************************)
(* C17.  No process() task ends in an exception: when the extraction or    *)
(* the transcription raises, the task ends normally and the item has no    *)
(* content.                                                                *)
(***************************************************************************)
C17_ProcessNeverRaises ==
    \A i \in 1..Len(tasks) :
        /\ tasks[i] # "failed"
        /\ (tasks[i] = "done" /\ incoming[i].message.docText = ""
               /\ incoming[i].message.voiceText = "")
           => incoming[i].content = ""

\* The one add_message call made is that of the group text.
ScenarioGroup ==
    /\ Len(calls) = 1
    /\ incoming[1].message = GroupText

C19_OneBatchPerKey ==
    [][\A k \in Keys :
          (Len(calls') = Len(calls) + 1 /\ calls'[Len(calls')].key = k)
          => /\ IF k \in DOMAIN batches
                THEN /\ batches'[k] = batches[k]
                     /\ batchObjs'[batches[k]].messages =
                            Append(batchObjs[batches[k]].messages,
                                   Len(calls'))
                ELSE /\ batches'[k] \notin DOMAIN batchObjs
                     /\ batchObjs'[batches'[k]].messages = <<Len(calls')>>
             /\ \A i \in 1..Len(incoming') :
                    Cardinality({b \in DOMAIN batchObjs' :
                        i \in Range(batchObjs'[b].messages)}) = 1
             /\ \A j \in DOMAIN batches \ {k} : batches'[j] = batches[j]]_vars

\* C19: a second call for a key found the key's batch and joined it.
C19_Witness ==
    \E k \in DOMAIN batches :
        /\ Cardinality(CallsOf(k)) = 2
        /\ batchObjs[batches[k]].messages = InOrder(CallsOf(k))

(***************************************************************************)
(* C20.  The tokens issued for a key grow: a timer of a key carries a      *)
(* token greater than that of every earlier timer of the key.              *)
(***************************************************************************)
C20_TokenMonotonic ==
    \A g, h \in 1..Len(handles) :
        (g < h /\ handles[g].key = handles[h].key)
            => handles[g].token < handles[h].token

\* What the BatchProcessor holds for key k: its batch, its timer and its
\* token.
KeyState(k) ==
    [batch |-> IF k \in DOMAIN batches
               THEN <<batches[k], batchObjs[batches[k]]>> ELSE <<>>,
     timer |-> IF k \in DOMAIN timers
               THEN <<timers[k], handles[timers[k]]>> ELSE <<>>,
     token |-> IF k \in DOMAIN tokens THEN <<tokens[k]>> ELSE <<>>]

\* The step is one of add_message for key k.
AddStepOf(k) ==
    Len(calls') = Len(calls) + 1 /\ calls'[Len(calls')].key = k

\* The step is one of a _finalize_batch task of key k.
FinalizeStepOf(k) ==
    \E h \in DOMAIN fin : fin[h].key = k /\ fin'[h] # fin[h]

(***************************************************************************)
(* C21.  add_message and _finalize_batch for a key leave the batch, the    *)
(* timer and the token of every other key as they were, and what is        *)
(* handed to reply_func for a key is the merge of items added under that   *)
(* key alone.                                                              *)
(***************************************************************************)
C21_KeysIndependent ==
    [][/\ \A k \in Keys :
              (AddStepOf(k) \/ FinalizeStepOf(k)) =>
                  \A j \in Keys \ {k} : KeyState(j)' = KeyState(j)
       /\ Len(dispatched') > Len(dispatched) =>
              LET c == dispatched'[Len(dispatched')]
              IN  /\ \A i \in Range(c.items) : incoming[i].key = c.key
                  /\ c.question = Merged(c.items)]_vars

\* C21: the batch of one key has been dispatched and torn down while the
\* other key's batch was collecting, and that batch is still there.
C21_Witness ==
    \E k, j \in Keys :
        /\ k # j
        /\ \E d \in DispatchesOf(k) : fin[dispatched[d].task].pc = "done"
        /\ calls[Len(calls)].key = k
        /\ j \in DOMAIN batches /\ j \in DOMAIN tokens
        /\ handles[timers[j]].state = "armed"

(***************************************************************************)
(* C22.  reply_func is called with send_voice_reply true when an item of   *)
(* the batch it is called for has a voice attachment, and with             *)
(* send_voice_reply false when none has.                                   *)
(***************************************************************************)
C22_VoiceReplyFlag ==
    \A c \in Range(dispatched) :
        c.send_voice_reply <=>
            \E j \in Range(c.items) : incoming[j].message.voice

\* C22: a batch of a voice message and a later text has been dispatched
\* with the flag set, whatever became of the transcription.
C22_Witness ==
    \E c \in Range(dispatched) :
        /\ Len(c.items) = 2
        /\ incoming[c.items[1]].message = VoiceHi
        /\ incoming[c.items[2]].message = TextA
        /\ c.send_voice_reply

(***************************************************************************)
(* C23.  The update, message and context that reply_func and the prompt    *)
(* about a file get are those of the item added last to the batch.         *)
(***************************************************************************)
C23_ReplyTargetIsLast ==
    \A c \in Sent :
        /\ c.items # <<>>
        /\ c.target = c.items[Len(c.items)]
        /\ \A j \in Range(c.items) : j <= c.target

\* C23: a batch of two items has been dispatched, with the second item as
\* the reply target.
C23_Witness ==
    \E c \in Range(dispatched) :
        Len(c.items) = 2 /\ c.target = c.items[2] /\ c.target # c.items[1]

(***************************************************************************)
(* C24.  add_message waits for nothing: whatever extraction is pending and *)
(* whatever finalization is in progress, a call can run, and every call    *)
(* made has ended with its item in a batch and a timer of its own made     *)
(* for its key.                                                            *)
(***************************************************************************)
C24_AddNeverWaits ==
    /\ Len(incoming) < MaxAdds =>
           \A in \in Inputs : ENABLED AddMessage(in[1], in[2])
    /\ Len(handles) = Len(calls) /\ Len(incoming) = Len(calls)
    /\ \A i \in 1..Len(calls) :
           /\ handles[i].key = calls[i].key
           /\ \E b \in DOMAIN batchObjs : i \in Range(batchObjs[b].messages)

\* C24: a call came while the finalization of its key was waiting for an
\* extraction that has not ended, and its timer is armed.
C24_Witness ==
    \E i \in 1..Len(calls) :
        /\ calls[i].phase = "finalizing"
        /\ handles[i].state = "armed"
        /\ \E j \in 1..(i - 1) :
               calls[j].key = calls[i].key /\ tasks[j] = "pending"

(***************************************************************************)
(* C25.  When reply_func is called, the batch the call is made for has no  *)
(* pending task, the items that joined it while the finalization waited    *)
(* included: the call is made with all the items the batch then holds,     *)
(* the task of each has ended and the content of each is in the prompt.    *)
(* A finalization whose batch has a pending task makes no call.            *)
(***************************************************************************)
C25_NoDispatchWhilePending ==
    [][Len(dispatched') = Len(dispatched) + 1 =>
          LET c == dispatched'[Len(dispatched')]
              b == batchObjs'[fin'[c.task].batch]
          IN  /\ fin[c.task].pc \in {"created", "waiting"}
              /\ c.items = b.messages
              /\ \A j \in Range(b.messages) :
                     /\ tasks'[j] \in {"done", "failed"}
                     /\ tasks[j] = tasks'[j]
                     /\ Contains(c.question, incoming'[j].content)
                     /\ tasks'[j] = "done" =>
                            Contains(incoming'[j].content,
                                     incoming'[j].message.docText)]_vars

\* C25: a document joined the batch while its finalization was waiting for
\* the extraction of a captioned photo, and the one call made has both.
C25_Witness ==
    \E c \in Range(dispatched) :
        /\ Len(c.items) = 2
        /\ incoming[c.items[1]].message = PhotoHello
        /\ incoming[c.items[2]].message = DocWorld
        /\ calls[c.items[2]].phase = "finalizing"
        /\ c.question = "hello\n\nworld"

\* s.endswith(suf)
EndsWith(s, suf) ==
    Len(suf) <= Len(s) /\ SubSeq(s, Len(s) - Len(suf) + 1, Len(s)) = suf

\* The contents of the items, those that are not empty, in the order of the
\* items and separated by blank lines.
ContentsInOrder(items) ==
    Join("\n\n", NonEmpty([j \in 1..Len(items) |->
                              incoming[items[j]].content]))

(***************************************************************************)
(* C26.  The contents extracted for the items of a batch stand in the      *)
(* prompt in the order in which the items were added, whatever the order   *)
(* in which their tasks ended.                                             *)
(***************************************************************************)
C26_ContentsInArrivalOrder ==
    \A c \in Sent :
        /\ \A n \in 1..(Len(c.items) - 1) : c.items[n] < c.items[n + 1]
        /\ EndsWith(c.question, ContentsInOrder(c.items))

\* C26: the task of the second document ended before that of the first,
\* and the prompt has the content of the first ahead of the second's.
C26_Witness ==
    \E c \in Sent :
        /\ Len(c.items) = 2
        /\ incoming[c.items[1]].message = DocWorld
        /\ incoming[c.items[2]].message = DocMoon
        /\ finished = <<c.items[2], c.items[1]>>
        /\ c.question = "world\n\nmoon"

\* The timers of key k that are armed.
Armed(k) ==
    {h \in 1..Len(handles) :
        handles[h].key = k /\ handles[h].state = "armed"}

(***************************************************************************)
(* C27.  A key has one armed timer at most, and it is the one the key's    *)
(* entry of timers holds: add_message cancels the timer it replaces.  A    *)
(* timer that has fired or was cancelled stays as it is, whoever cancels   *)
(* it again, and no timer fires that is not armed.                         *)
(***************************************************************************)
C27_OneArmedTimer ==
    [][/\ \A k \in Keys :
              /\ Cardinality(Armed(k)') <= 1
              /\ \A h \in Armed(k)' :
                     k \in DOMAIN timers' /\ timers'[k] = h
       /\ \A h \in 1..Len(handles) :
              /\ handles[h].state # "armed" => handles'[h] = handles[h]
              /\ handles'[h].state = "fired" =>
                     handles[h].state \in {"armed", "fired"}]_vars

\* C27: a call found the timer of its key armed, cancelled it and armed
\* its own.
C27_Witness ==
    \E g, h \in 1..Len(handles) :
        /\ g < h /\ handles[g].key = handles[h].key
        /\ calls[h].phase = "collecting"
        /\ handles[g].state = "cancelled"
        /\ Armed(handles[h].key) = {h}

(***************************************************************************)
(* C28.  When the transcription of an item's voice attachment raises, the  *)
(* text extracted from the item's document or photo before it is kept: it  *)
(* is in every prompt made with the item.                                  *)
(***************************************************************************)
C28_VoiceFailureKeepsFile ==
    \A c \in Sent :
        \A j \in Range(c.items) :
            (incoming[j].error = "voice" /\ incoming[j].message.doc)
                => Contains(c.question, incoming[j].message.docText)

C30_SameKeys ==
    /\ DOMAIN batches = DOMAIN tokens
    /\ DOMAIN batches = DOMAIN timers

\* The teardown of a finalization removed its key from the maps, which
\* hold another key.
C30_Witness ==
    \E h \in DOMAIN fin :
        /\ fin[h].pc = "done"
        /\ fin[h].key \notin
               (DOMAIN batches \cup DOMAIN tokens \cup DOMAIN timers)
        /\ DOMAIN batches # {}

\* The places message i of MessageCommand has in the buffers.
InBuffers(i) ==
    {x \in (DOMAIN cmd_buffers) \X (1..Len(received)) :
        x[2] <= Len(cmd_buffers[x[1]]) /\ cmd_buffers[x[1]][x[2]] = i}

\* The places message i has in what the _flush tasks took and called
\* _process with.
Taken(i) ==
    {x \in (1..Len(flushes)) \X (1..Len(received)) :
        x[2] <= Len(flushes[x[1]].data) /\ flushes[x[1]].data[x[2]] = i}

\* Every message is in one place, and a message in a buffer has the
\* sleeping _flush task of its key before it.
Accounted ==
    /\ \A i \in 1..Len(received) :
           Cardinality(InBuffers(i)) + Cardinality(Taken(i)) = 1
    /\ \A k \in DOMAIN cmd_buffers :
           cmd_buffers[k] # <<>> =>
               /\ k \in DOMAIN cmd_tasks
               /\ flushes[cmd_tasks[k]].pc = "sleeping"
               /\ <<"flush", cmd_tasks[k]>> \in Range(sleeps)

(***************************************************************************)
(* C31.  Every message MessageCommand.__call__ received is in the buffer   *)
(* of its key, with a sleeping _flush task to take it, or was taken by one *)
(* _flush task, once, for its one call of _process.  A _flush task that is *)
(* cancelled in its sleep takes nothing and leaves the buffer of its key   *)
(* with all it had; a _flush task whose sleep ends takes the whole buffer  *)
(* of its key, and its last message as the message to reply to.            *)
(***************************************************************************)
C31_EveryMessageOnce ==
    [][/\ Accounted'
       /\ \A f \in 1..Len(flushes) :
              LET k == flushes[f].key
              IN  /\ flushes'[f].pc = "cancelled" =>
                         /\ flushes'[f].data = <<>>
                         /\ flushes[f].pc \in {"sleeping", "cancelled"}
                  /\ (flushes[f].pc = "sleeping"
                        /\ flushes'[f].pc = "cancelled")
                       => /\ k \in DOMAIN cmd_buffers
                          /\ k \in DOMAIN cmd_buffers'
                          /\ SubSeq(cmd_buffers'[k], 1, Len(cmd_buffers[k]))
                                 = cmd_buffers[k]
                  /\ (flushes[f].pc = "sleeping"
                        /\ flushes'[f].pc \notin {"sleeping", "cancelled"})
                       => /\ flushes'[f].data = cmd_buffers[k]
                          /\ flushes'[f].data # <<>>
                          /\ flushes'[f].base =
                                 cmd_buffers[k][Len(cmd_buffers[k])]
                          /\ k \notin DOMAIN cmd_buffers'
                  /\ flushes[f].pc # "sleeping" =>
                         flushes'[f].data = flushes[f].data]_vars

\* Two messages came within the debounce: the first _flush task was
\* cancelled, and the second took both messages, the second to reply to.
C31_Witness ==
    \E f, g \in 1..Len(flushes) :
        /\ flushes[f].pc = "cancelled"
        /\ flushes[g].data = <<f, g>>
        /\ flushes[g].base = g
        /\ Accounted

(***************************************************************************)
(* C32.  The prompt "This is a file. What should I do with it?" that       *)
(* _process schedules after a flush with file content and no question is   *)
(* sent once at most, and only when no message of its key has arrived      *)
(* since that flush: with a later message in the buffer, waiting for its   *)
(* debounce or being processed, the prompt is not sent.                    *)
(***************************************************************************)
C32_PromptOnlyWhenQuiet ==
    [][\A p \in 1..Len(prompts) :
           /\ prompts[p].sent =>
                  /\ prompts'[p].sent
                  /\ prompts'[p].pc = "sending" => prompts[p].pc = "sending"
           /\ (~prompts[p].sent /\ prompts'[p].sent) =>
                  \A i \in 1..Len(received) :
                      received[i].key = prompts[p].key
                          => i <= flushes[prompts[p].flush].base]_vars

\* The flushes of key k that stored their file content in user_data.
Stashed(k) ==
    {f \in 1..Len(flushes) : flushes[f].key = k /\ flushes[f].pc = "stashed"}

\* The file content of a flush that stored it.
ContentOf(f) == ProcessFiles(FlushDocs(flushes[f].data))

\* The places of sub in s.
PlacesIn(s, sub) ==
    {i \in 1..Len(s) : i + Len(sub) - 1 <= Len(s)
                         /\ SubSeq(s, i, i + Len(sub) - 1) = sub}

(***************************************************************************)
(* C33.  The file contents that flushes without a question store under     *)
(* last_file_content are there in the order in which their messages        *)
(* arrived, and no stored content is in two of the questions handed to     *)
(* reply_func: the flush that takes the stored content removes it.         *)
(***************************************************************************)
C33_StashInOrderOnce ==
    /\ \A k \in DOMAIN last_file_content :
           \A f, g \in Stashed(k) :
               (/\ f < g
                /\ ContentOf(f) # ContentOf(g)
                /\ Contains(last_file_content[k], ContentOf(f))
                /\ Contains(last_file_content[k], ContentOf(g)))
                   => \E i \in PlacesIn(last_file_content[k], ContentOf(f)) :
                          \E j \in PlacesIn(last_file_content[k],
                                            ContentOf(g)) : i < j
    /\ \A k \in Keys : \A f \in Stashed(k) :
           Cardinality({a \in 1..Len(asked) :
                           /\ asked[a].key = k
                           /\ Contains(asked[a].question, ContentOf(f))}) <= 1

\* The calls of the wrapper for user k in which the handler was called.
Handled(k) ==
    {w \in 1..Len(wraps) :
        wraps[w].key = k /\ wraps[w].pc \in {"handling", "done", "raised"}}

(***************************************************************************)
(* C34.  For a user who is not known and a limit above zero: a call of the *)
(* wrapper that finds the counter of the user at the limit does not call   *)
(* the handler, sends the refusal and leaves the counter as it is; and the *)
(* handler is called for the user at most as many times as the limit says, *)
(* also when the updates are handled concurrently.                         *)
(***************************************************************************)
C34_AtMostLimitHandled ==
    [][/\ \A k \in Keys \ KnownUsers :
              /\ (/\ Len(wraps') = Len(wraps) + 1
                  /\ wraps'[Len(wraps')].key = k
                  /\ message_counter[k] >= LimitCount)
                     => /\ wraps'[Len(wraps')].pc = "refusing"
                        /\ message_counter' = message_counter
              /\ Cardinality(Handled(k)') <= LimitCount
       /\ \A w \in 1..Len(wraps) :
              wraps[w].pc = "refusing" =>
                  /\ wraps'[w].pc \in {"refusing", "refused", "raised"}
                  /\ message_counter' = message_counter]_vars

(***************************************************************************)
(* C35.  A chat has one parsing session at most: a /parsemany that comes   *)
(* while the chat has a session is rejected and leaves the session as it   *)
(* is, and no /parsemany, however two of them for one chat interleave,     *)
(* puts a new session in the place of one that is there.                   *)
(***************************************************************************)
C35_OneSessionPerChat ==
    [][/\ (/\ Len(parse_calls') = Len(parse_calls) + 1
           /\ parse_calls'[Len(parse_calls')].chat
                  \in SessionChats(active_sessions))
              => /\ parse_calls'[Len(parse_calls')].pc = "rejecting"
                 /\ active_sessions' = active_sessions
       /\ \A i \in 1..Len(parse_calls) :
              parse_calls'[i] # parse_calls[i] =>
                  \A j \in 1..Len(active_sessions) :
                      /\ j <= Len(active_sessions')
                      /\ active_sessions'[j] = active_sessions[j]]_vars

(***************************************************************************)
(* C36.  cleanup_all_sessions calls the cleanup_callback of every session  *)
(* that is active when it begins, once each, and leaves active_sessions    *)
(* empty, however many sessions there are.                                 *)
(***************************************************************************)
C36_CleanupCallsEveryCallback ==
    [][(cleanup.pc # "done" /\ cleanup'.pc = "done") =>
           /\ active_sessions' = <<>>
           /\ \A j \in 1..Len(cleanup'.sessions) :
                  Cardinality({n \in 1..Len(cleaned') :
                      cleaned'[n] = cleanup'.sessions[j].session}) = 1]_vars

=============================================================================
